---- MODULE Spec2Model ----
(***************************************************************************)
(* Model of the linking engine of sdRDM (sdRDM/linking/link.py and         *)
(* sdRDM/linking/utils.py): convert_data_model projects the values of a    *)
(* source data-model instance onto guide trees built for target schemas,   *)
(* driven by per-field annotations and by a link template.                 *)
(*                                                                         *)
(* Python dictionaries are sets of [k, v] pairs with unique k; strings     *)
(* with dots (target paths, attribute paths) are sequences of segments.    *)
(***************************************************************************)
EXTENDS Integers, Sequences, FiniteSets, TLC

(* ------------------------------ bounds -------------------------------- *)
\* largest number of elements of the source sequence field "runs"
MaxRuns == 2
\* largest number of elements of the nested sequence field "runs.steps"
MaxSteps == 2
\* number of convert_data_model calls followed in one process (SpecRuns)
MaxCalls == 2

(* --------------------------- dictionaries ----------------------------- *)
EmptyDict == {}
Has(d, k) == \E e \in d : e.k = k
Get(d, k) == (CHOOSE e \in d : e.k = k).v
Put(d, k, v) == {e \in d : e.k # k} \cup {[k |-> k, v |-> v]}
Keys(d) == {e.k : e \in d}
Values(d) == {e.v : e \in d}
\* {**a, **b}
Merge(a, b) == {e \in a : ~Has(b, e.k)} \cup b

(* ----------------------- target schemas (input) ----------------------- *)
\* The importable libraries and the schema classes each one holds.
Modules == {"libA", "libB"}
ModuleClasses(lib) ==
    IF lib = "libA" THEN {"Sample", "Origin", "Glass", "Metal"}
    ELSE IF lib = "libB" THEN {"Report"}
    ELSE {}
SchemaClasses == UNION {ModuleClasses(lib) : lib \in Modules}

TField(name, outer, types) == [name |-> name, outer |-> outer, types |-> types]

\* obj.__fields__ of a target class: name, outer type, inner type(s) (a Union
\* lists several); "prim" stands for any type without __fields__.
TargetFields(cls) ==
    CASE cls = "Sample" ->
           << TField("name", "none", <<"prim">>),
              TField("temp", "none", <<"prim">>),
              TField("origin", "none", <<"Origin">>),
              TField("parts", "list", <<"Glass", "Metal">>) >>
      [] cls = "Origin" ->
           << TField("city", "none", <<"prim">>),
              TField("parent", "none", <<"Origin">>) >>
      [] cls = "Glass" -> << TField("mass", "none", <<"prim">>) >>
      [] cls = "Metal" -> << TField("mass", "none", <<"prim">>) >>
      [] cls = "Report" ->
           << TField("author", "none", <<"prim">>),
              TField("site", "none", <<"prim">>),
              TField("readings", "list", <<"prim">>),
              TField("values", "list", <<"prim">>) >>
      [] OTHER -> << >>

(* ----------------------------- guide trees ---------------------------- *)
TNode(kind, name, chain, outer) ==
    [kind |-> kind, name |-> name, chain |-> chain, outer |-> outer]

RECURSIVE build_guide_tree(_, _, _), BuildFields(_, _, _), BuildAlternatives(_, _, _, _, _)
\* The nodes of the tree in creation order, which is anytree's pre-order:
\* the ClassNode, then per field the AttributeNode and the sub-trees below it.
build_guide_tree(obj, parentChain, outer) ==
    << TNode("class", obj, Append(parentChain, obj), outer) >>
      \o BuildFields(obj, Append(parentChain, obj), 1)

BuildFields(obj, chain, i) ==
    IF i > Len(TargetFields(obj)) THEN << >>
    ELSE LET f == TargetFields(obj)[i]
             ac == Append(chain, f.name)
         IN  << TNode("attr", f.name, ac, f.outer) >>
               \o BuildAlternatives(obj, ac, f.outer, f.types, 1)
               \o BuildFields(obj, chain, i + 1)

\* A nested schema is expanded unless it has the enclosing class's name.
BuildAlternatives(obj, ac, outer, types, j) ==
    IF j > Len(types) THEN << >>
    ELSE (IF types[j] \in SchemaClasses /\ types[j] # obj
          THEN build_guide_tree(types[j], ac, outer)
          ELSE << >>)
           \o BuildAlternatives(obj, ac, outer, types, j + 1)

\* The guide tree of every schema class, as build_guide_tree builds it.
GuideTrees == [root \in SchemaClasses |-> build_guide_tree(root, << >>, "none")]

\* The node structure of the guide tree of a root class.
Nodes(root) == GuideTrees[root]

\* AttributeNode.value of every node of a freshly built tree: an empty mapping
\* from write key to value.
FreshTree(root) == [i \in 1..Len(Nodes(root)) |-> EmptyDict]

\* name[0].islower(): schema classes are capitalised, attributes are not.
IsLowerInitial(name) == name \notin SchemaClasses

\* [n.name for n in node.path if n.name[0].islower()]
LowerChain(node) == SelectSeq(node.chain, IsLowerInitial)

\* The lowercase-name chain of every node of every guide tree.
LowerChains ==
    [root \in SchemaClasses |->
        [i \in 1..Len(GuideTrees[root]) |-> LowerChain(GuideTrees[root][i])]]

\* findall(node, _search_by_path(path)): the matching nodes, in pre-order.
FindAll(root, path) ==
    SelectSeq([i \in 1..Len(Nodes(root)) |-> i],
              LAMBDA i : LowerChains[root][i] = path)

(* ------------------------ source schema (input) ----------------------- *)
Options == {"A", "B"}

SField(name, kind, type, ann) ==
    [name |-> name, kind |-> kind, type |-> type, ann |-> ann]
Ann(option, path) == [k |-> option, v |-> path]

\* obj.__fields__ of a source class, in declaration order: the attribute name,
\* whether it holds a primitive, one nested schema instance ("obj") or a List
\* of them ("list"), the nested class (field.type_), and field_info.extra
\* (option -> target path).
SrcFields(cls) ==
    CASE cls = "Experiment" ->
           << SField("title", "prim", "prim",
                     {Ann("A", <<"libA", "Sample", "name">>),
                      Ann("B", <<"libB", "Report", "author">>)}),
              SField("sample", "obj", "Specimen", EmptyDict),
              SField("runs", "list", "Run", EmptyDict),
              SField("note", "prim", "prim", EmptyDict),
              SField("operator", "prim", "prim",
                     {Ann("A", <<"libA", "Sample", "origin", "city">>)}) >>
      [] cls = "Specimen" ->
           << SField("kind", "prim", "prim", EmptyDict),
              SField("mass", "prim", "prim",
                     {Ann("A", <<"libA", "Sample", "temp">>)}),
              SField("site", "obj", "Site", EmptyDict),
              SField("city", "prim", "prim",
                     {Ann("A", <<"libA", "Sample", "origin", "city">>)}) >>
      [] cls = "Site" ->
           << SField("code", "prim", "prim",
                     {Ann("B", <<"libB", "Report", "site">>)}) >>
      [] cls = "Run" ->
           << SField("kind", "prim", "prim",
                     {Ann("B", <<"libB", "Report", "site">>)}),
              SField("reading", "prim", "prim",
                     {Ann("A", <<"libA", "Sample", "parts", "mass">>),
                      Ann("B", <<"libB", "Report", "readings">>)}),
              SField("steps", "list", "Step", EmptyDict) >>
      [] cls = "Step" ->
           << SField("val", "prim", "prim",
                     {Ann("B", <<"libB", "Report", "values">>)}) >>
      [] OTHER -> << >>

(* ----------------------- source instances (input) --------------------- *)
\* The values the match attribute "kind" takes: str(12) starts with str(1).
KindValues == {1, 2, 12}

NoObj == [cls |-> "none"]
Prim(v) == [kind |-> "prim", prim |-> v, obj |-> NoObj, list |-> << >>]
Obj(o) == [kind |-> "obj", prim |-> 0, obj |-> o, list |-> << >>]
List(l) == [kind |-> "list", prim |-> 0, obj |-> NoObj, list |-> l]

\* Leaf values are chosen so that every leaf of an instance holds its own value.
MkStep(i, j) == [cls |-> "Step", vals |-> [val |-> Prim(100 + 10 * i + j)]]
MkRun(i, kind, nSteps) ==
    [cls |-> "Run",
     vals |-> [kind |-> Prim(kind),
               reading |-> Prim(20 + i),
               steps |-> List([j \in 1..nSteps |-> MkStep(i - 1, j - 1)])]]
MkSpecimen(kind) ==
    [cls |-> "Specimen",
     vals |-> [kind |-> Prim(kind),
               mass |-> Prim(5),
               site |-> Obj([cls |-> "Site", vals |-> [code |-> Prim(6)]]),
               city |-> Prim(4)]]
\* kinds: the kind of each run, in order; nSteps: the steps every run holds.
MkExperiment(sampleKind, kinds, nSteps) ==
    [cls |-> "Experiment",
     vals |-> [title |-> Prim(1),
               sample |-> Obj(MkSpecimen(sampleKind)),
               runs |-> List([i \in 1..Len(kinds) |-> MkRun(i, kinds[i], nSteps)]),
               note |-> Prim(2),
               operator |-> Prim(3)]]

KindSeqs(n) == [1..n -> KindValues]
\* The source instances a call is given.
SourceObjects ==
    {MkExperiment(sk, ks, m) :
        sk \in KindValues,
        ks \in UNION {KindSeqs(n) : n \in 0..MaxRuns},
        m \in 0..MaxSteps}

(* --------------------------- regular expressions ---------------------- *)
DigitChar(d) == <<"0", "1", "2", "3", "4", "5", "6", "7", "8", "9">>[d + 1]
\* str(v) of a non-negative integer
RECURSIVE Str(_)
Str(v) == IF v < 10 THEN <<DigitChar(v)>>
          ELSE Append(Str(v \div 10), DigitChar(v % 10))

\* A pattern is a literal text, optionally followed by "$".
Pat(lit, anchored) == [lit |-> lit, anchored |-> anchored]
\* bool(re.match(pattern, text)): the pattern matches at the start of the text.
re_match(pattern, text) ==
    /\ Len(pattern.lit) <= Len(text)
    /\ SubSeq(text, 1, Len(pattern.lit)) = pattern.lit
    /\ (pattern.anchored => Len(text) = Len(pattern.lit))

(* --------------------------- templates (input) ------------------------ *)
Rule(attribute, pattern, targets) ==
    [attribute |-> attribute, pattern |-> pattern, targets |-> targets]
To(attr, path) == [k |-> attr, v |-> path]

\* A template value is a list of rule objects, a dictionary (a flat
\* attribute -> target path map, or an object holding a "targets" mapping), or
\* a string (the "__model__" entry).
ListEntry(rules) ==
    [kind |-> "list", rules |-> rules, items |-> EmptyDict,
     hasTargets |-> FALSE, targets |-> EmptyDict]
DictEntry(items) ==
    [kind |-> "dict", rules |-> << >>, items |-> items,
     hasTargets |-> FALSE, targets |-> EmptyDict]
RuleObjectEntry(targets) ==
    [kind |-> "dict", rules |-> << >>, items |-> EmptyDict,
     hasTargets |-> TRUE, targets |-> targets]
StrEntry ==
    [kind |-> "str", rules |-> << >>, items |-> EmptyDict,
     hasTargets |-> FALSE, targets |-> EmptyDict]

TemplatePaths == << <<"sample">>, <<"sample", "site">>, <<"runs">>, <<"runs", "steps">> >>

\* The values a template may hold under each of TemplatePaths.
EntryChoices(i) ==
    CASE i = 1 ->
           << ListEntry(<<
                Rule("kind", Pat(<<"1">>, FALSE),
                     {To("kind", <<"libA", "Sample", "name">>),
                      To("mass", <<"libB", "Report", "author">>),
                      To("city", <<"libB", "Report", "site">>)}),
                Rule("kind", Pat(<<"2">>, TRUE),
                     {To("kind", <<"libA", "Sample", "origin">>),
                      To("mass", <<"libA", "Sample", "nope">>)}) >>),
              DictEntry({To("kind", <<"libA", "Sample", "name">>),
                         To("mass", <<"libB", "Report", "author">>)}) >>
      [] i = 2 ->
           << ListEntry(<<
                Rule("code", Pat(<< >>, FALSE),
                     {To("code", <<"libA", "Sample", "origin", "city">>)}) >>),
              RuleObjectEntry({To("code", <<"libB", "Report", "site">>)}) >>
      [] i = 3 ->
           << ListEntry(<<
                Rule("kind", Pat(<<"1">>, FALSE),
                     {To("kind", <<"libB", "Report", "site">>),
                      To("reading", <<"libB", "Report", "readings">>)}),
                Rule("kind", Pat(<<"1", "2">>, TRUE),
                     {To("reading", <<"libA", "Sample", "temp">>)}) >>),
              ListEntry(<<
                Rule("kind", Pat(<< >>, FALSE),
                     {To("kind", <<"libA", "Sample", "name">>),
                      To("reading", <<"libA", "Sample", "parts", "mass">>)}) >>) >>
      [] i = 4 ->
           << ListEntry(<<
                Rule("val", Pat(<<"1">>, FALSE),
                     {To("val", <<"libB", "Report", "values">>)}) >>) >>
      [] OTHER -> << >>

TemplateChoices ==
    {c \in [1..Len(TemplatePaths) -> 0..2] :
        \A i \in 1..Len(TemplatePaths) : c[i] <= Len(EntryChoices(i))}

\* The document yaml.safe_load returns for a template file.
TemplateOf(c) ==
    {[k |-> <<"__model__">>, v |-> StrEntry],
     [k |-> <<"__sources__">>,
      v |-> DictEntry({To("LibName", <<"URL to the library">>)})]}
    \cup {[k |-> TemplatePaths[i], v |-> EntryChoices(i)[c[i]]] :
            i \in {j \in 1..Len(TemplatePaths) : c[j] > 0}}

\* The templates a call is given.
Templates == {TemplateOf(c) : c \in TemplateChoices}

(* --------------------------- root discovery --------------------------- *)
\* lib, root, *_ = target.split(".")
LibOf(path) == path[1]
RootOf(path) == path[2]
\* _, root, *path = target.split(".")
NodePathOf(path) == SubSeq(path, 3, Len(path))

\* The roots of a targets mapping, each with a freshly built guide tree (every
\* target path of the inputs names a class of an importable library).
_get_target_roots(targets) ==
    {[k |-> RootOf(t), v |-> FreshTree(RootOf(t))] : t \in Values(targets)}

\* The "targets" mappings _extract_roots_from_template reads: of a value that
\* is no list only the one under its "targets" key, of a list the one of every
\* rule.  A flat attribute -> target path map has no "targets" key.
TemplateTargetMaps(template) ==
    {e.v.targets : e \in {d \in template : d.v.kind # "list" /\ d.v.hasTargets}}
    \cup UNION {{e.v.rules[j].targets : j \in 1..Len(e.v.rules)} :
                  e \in {d \in template : d.v.kind = "list"}}

_extract_roots_from_template(template) ==
    UNION {_get_target_roots(t) : t \in TemplateTargetMaps(template)}

\* The target paths the fields of a source class, and of the classes nested in
\* it, are annotated with for the option.
RECURSIVE AnnotatedPaths(_, _)
AnnotatedPaths(cls, option) ==
    LET fs == SrcFields(cls)
    IN  UNION {(IF Has(fs[i].ann, option) THEN {Get(fs[i].ann, option)} ELSE {})
               \cup (IF fs[i].kind \in {"obj", "list"}
                     THEN AnnotatedPaths(fs[i].type, option) ELSE {}) :
               i \in 1..Len(fs)}

\* _extract_roots run on the dictionary `roots`: every annotated root gets a
\* freshly built tree, every other entry of `roots` stays as it is.
_extract_roots(cls, option, roots) ==
    Merge(roots, {[k |-> RootOf(t), v |-> FreshTree(RootOf(t))] :
                     t \in AnnotatedPaths(cls, option)})

(* --------------------------- the conversion walk ---------------------- *)
NoErr == [type |-> "none", path |-> << >>, count |-> 0]
Err(type, path, count) == [type |-> type, path |-> path, count |-> count]

\* Write keys: the number obj_index, or the text "<attr_path>.<obj_index>".
NumKey(i) == [num |-> TRUE, path |-> << >>, idx |-> i]
StrKey(attr_path, i) == [num |-> FALSE, path |-> attr_path, idx |-> i]

\* One step of the walk, recorded for the properties: entering an object
\* ("enter"), resolving the targets of a nested object ("select"), handling a
\* primitive attribute ("visit").
Ev(ev, loc, attrPath, idx, attr, passed, used, via, path, node, key, value, n) ==
    [ev |-> ev, loc |-> loc, attrPath |-> attrPath, idx |-> idx, attr |-> attr,
     passed |-> passed, used |-> used, via |-> via, path |-> path, node |-> node,
     key |-> key, value |-> value, n |-> n]

Log(st, e) == [st EXCEPT !.log = Append(@, e)]
Raise(st, err) == [st EXCEPT !.err = err]

\* str(match_attr)
TextOf(w) == IF w.kind = "prim" THEN Str(w.prim) ELSE <<"<">>

\* The rules of a list whose pattern matches the object's match attribute.
Matches(obj, rules) ==
    SelectSeq(rules, LAMBDA r : re_match(r.pattern, TextOf(obj.vals[r.attribute])))

\* `not targets`: no entry, or an empty list, dictionary or string
Falsy(entry) ==
    \/ entry.kind = "list" /\ entry.rules = << >>
    \/ entry.kind = "dict" /\ entry.items = EmptyDict /\ ~entry.hasTargets

\* len(matches) > 2: two matching rules pass unnoticed.
AmbiguousOverTwo(matches) == Len(matches) > 2

\* len(matches) > 1
Ambiguous(matches) == Len(matches) > 1

\* matches[0]["targets"]
Selected(matches) == matches[1].targets

\* The targets that apply to obj at path, or the error raised.
_check_matching_target(obj, path, template) ==
    IF ~Has(template, path) \/ Falsy(Get(template, path))
    THEN [targets |-> EmptyDict, err |-> NoErr, n |-> 0]
    ELSE LET entry == Get(template, path)
         IN  IF entry.kind # "list"
             THEN \* iterating a dictionary or a string yields strings, and
                  \* target["attribute"] of a string raises
                  [targets |-> EmptyDict, err |-> Err("TypeError", path, 0), n |-> 0]
             ELSE IF \E j \in 1..Len(entry.rules) :
                        entry.rules[j].attribute \notin DOMAIN obj.vals
             THEN [targets |-> EmptyDict, err |-> Err("AttributeError", path, 0), n |-> 0]
             ELSE LET matches == Matches(obj, entry.rules)
                  IN  IF Ambiguous(matches)
                      THEN [targets |-> EmptyDict,
                            err |-> Err("ValueError", path, Len(matches)),
                            n |-> Len(matches)]
                      ELSE IF Len(matches) = 0
                      THEN [targets |-> EmptyDict, err |-> NoErr, n |-> 0]
                      ELSE [targets |-> Selected(matches), err |-> NoErr, n |-> 1]

\* findall(...)[0]
FirstMatch(hits) == hits[1]

\* node.value[index] = value on the node the path names in the tree of `root`.
_assign_primitive_data_to_node(st, root, path, value, index) ==
    LET hits == FindAll(root, path)
    IN  IF hits = << >> THEN Raise(st, Err("IndexError", path, 0))
        ELSE IF Nodes(root)[FirstMatch(hits)].kind # "attr"
        THEN Raise(st, Err("AttributeError", path, Len(hits)))
        ELSE LET tree == Get(st.roots, root)
                 n == FirstMatch(hits)
             IN  [st EXCEPT !.roots =
                    Put(@, root, [tree EXCEPT ![n] = Put(@, index, value)])]

\* The write of one primitive attribute: roots[root], then the assignment.
Assign(st, target, value, index) ==
    IF ~Has(st.roots, RootOf(target))
    THEN Raise(st, Err("KeyError", target, 0))
    ELSE _assign_primitive_data_to_node(st, RootOf(target), NodePathOf(target),
                                        value, index)

\* obj_index + i: the index an element of a sequence is walked with
ElementIndex(obj_index, i) == obj_index + i

\* The node a write reaches (0: none) and the number of nodes its path matches.
NodeOf(target) ==
    LET hits == FindAll(RootOf(target), NodePathOf(target))
    IN  IF hits = << >> THEN 0 ELSE FirstMatch(hits)
NodeCount(target) == Len(FindAll(RootOf(target), NodePathOf(target)))

\* all(hasattr(obj, "__fields__") for obj in value)
_only_classes(value) == \A k \in 1..Len(value) : SrcFields(value[k].cls) # << >>

\* field.outer_type_.__origin__.__name__
_get_wrapping_type(f) == IF f.kind = "list" THEN "list" ELSE "none"

\* One step from an object to a nested one: the attribute, and the position in
\* the attribute's sequence (0 for a single nested object).
Elem(a, i) == [a |-> a, i |-> i]

RECURSIVE _convert_tree(_, _, _, _, _, _, _, _)
RECURSIVE ConvertFields(_, _, _, _, _, _, _, _, _, _)
RECURSIVE ConvertElems(_, _, _, _, _, _, _, _, _, _)

\* _convert_tree walks obj; `loc` says where obj sits in the source instance.
_convert_tree(st, obj, option, template, obj_index, attr_path, target, loc) ==
    ConvertFields(
        Log(st, Ev("enter", loc, attr_path, obj_index, obj.cls, target, target,
                   "", << >>, 0, NumKey(0), 0, 0)),
        obj, option, template, obj_index, attr_path, target, target, loc, 1)

\* The loop over obj.__fields__ from field i on; `target` is the local
\* variable, `passed` the value the call was given for it.
ConvertFields(st, obj, option, template, obj_index, attr_path, target, passed, loc, i) ==
    IF st.err.type # "none" \/ i > Len(SrcFields(obj.cls)) THEN st
    ELSE
    LET f == SrcFields(obj.cls)[i]
        value == obj.vals[f.name]
        childPath == Append(attr_path, f.name)
    IN  IF value.kind # "list" /\ f.kind \in {"obj", "list"}
        THEN LET m == _check_matching_target(value.obj, childPath, template)
                 cloc == Append(loc, Elem(f.name, 0))
                 st1 == Log(st, Ev("select", cloc, childPath, obj_index, f.name,
                                   passed, m.targets, m.err.type, << >>, 0,
                                   NumKey(0), 0, m.n))
             IN  IF m.err.type # "none" THEN Raise(st1, m.err)
                 ELSE ConvertFields(
                        _convert_tree(st1, value.obj, option, template, obj_index,
                                      childPath, m.targets, cloc),
                        obj, option, template, obj_index, attr_path,
                        m.targets, passed, loc, i + 1)
        ELSE IF value.kind = "list" /\ _only_classes(value.list)
        THEN LET r == IF _get_wrapping_type(f) = "list"
                      THEN ConvertElems([st |-> st, target |-> target], value.list,
                                        option, template, obj_index, childPath,
                                        passed, loc, f.name, 1)
                      ELSE [st |-> st, target |-> target]
             IN  ConvertFields(r.st, obj, option, template, obj_index, attr_path,
                               r.target, passed, loc, i + 1)
        ELSE IF Has(target, f.name)
        THEN LET t == Get(target, f.name)
                 st1 == Log(st, Ev("visit", loc, attr_path, obj_index, f.name,
                                   passed, target, "template", t, NodeOf(t),
                                   NumKey(obj_index), value.prim, NodeCount(t)))
             IN  ConvertFields(Assign(st1, t, value.prim, NumKey(obj_index)),
                               obj, option, template, obj_index, attr_path,
                               target, passed, loc, i + 1)
        ELSE IF Has(f.ann, option)
        THEN LET t == Get(f.ann, option)
                 nu_index == StrKey(attr_path, obj_index)
                 st1 == Log(st, Ev("visit", loc, attr_path, obj_index, f.name,
                                   passed, target, "annotation", t, NodeOf(t),
                                   nu_index, value.prim, NodeCount(t)))
             IN  ConvertFields(Assign(st1, t, value.prim, nu_index),
                               obj, option, template, obj_index, attr_path,
                               target, passed, loc, i + 1)
        ELSE \* return None: the rest of obj's fields is not walked
             Log(st, Ev("visit", loc, attr_path, obj_index, f.name, passed,
                        target, "unmapped", << >>, 0, NumKey(0), value.prim, 0))

\* for i, sub_obj in enumerate(value), from element k on (k counts from 1)
ConvertElems(ls, value, option, template, obj_index, childPath, passed, loc, attr, k) ==
    IF ls.st.err.type # "none" \/ k > Len(value) THEN ls
    ELSE
    LET m == _check_matching_target(value[k], childPath, template)
        idx == ElementIndex(obj_index, k - 1)
        cloc == Append(loc, Elem(attr, k - 1))
        st1 == Log(ls.st, Ev("select", cloc, childPath, idx, attr, passed,
                             m.targets, m.err.type, << >>, 0, NumKey(0), 0, m.n))
    IN  IF m.err.type # "none"
        THEN [st |-> Raise(st1, m.err), target |-> ls.target]
        ELSE ConvertElems(
               [st |-> _convert_tree(st1, value[k], option, template, idx,
                                     childPath, m.targets, cloc),
                target |-> m.targets],
               value, option, template, obj_index, childPath, passed, loc, attr,
               k + 1)

(* ------------------------------ the program --------------------------- *)
\* ClassNode.build() of a filled tree: the materialized instance, here the
\* entries of every AttributeNode of the tree.
Build(root, tree) == [root |-> root, slots |-> tree]

VARIABLES
    defaultRoots,   \* the dictionary that is _extract_roots' default `roots`
    calls,          \* convert_data_model calls made so far
    last            \* the last call: its arguments, its walk and what it gave

vars == << defaultRoots, calls, last >>

NoCall ==
    [obj |-> NoObj, option |-> "", template |-> EmptyDict,
     before |-> EmptyDict, found |-> {}, roots |-> EmptyDict, log |-> << >>,
     err |-> NoErr, result |-> {}]

Init ==
    /\ defaultRoots = EmptyDict
    /\ calls = 0
    /\ last = NoCall

\* convert_data_model(obj, option, path) with `template` the document read
\* from path ({} without a path).
convert_data_model(obj, option, template) ==
    LET fromTemplate == _extract_roots_from_template(template)
        fromFields == _extract_roots(obj.cls, option, defaultRoots)
        roots == Merge(fromTemplate, fromFields)
    IN  \E st \in {_convert_tree([roots |-> roots, log |-> << >>, err |-> NoErr],
                                 obj, option, template, 0, << >>, EmptyDict, << >>)} :
          \* the trees of the default dictionary are the ones the walk wrote to
          /\ defaultRoots' = {e \in st.roots : Has(fromFields, e.k)}
          /\ calls' = calls + 1
          /\ last' = [obj |-> obj, option |-> option, template |-> template,
                      before |-> defaultRoots,
                      found |-> Keys(fromTemplate)
                                  \cup {RootOf(t) : t \in AnnotatedPaths(obj.cls, option)},
                      roots |-> st.roots, log |-> st.log, err |-> st.err,
                      result |-> IF st.err.type = "none"
                                 THEN {Build(e.k, e.v) : e \in st.roots}
                                 ELSE {}]

\* A call with a template file.
ConvertWithTemplate ==
    /\ calls = 0
    /\ \E obj \in SourceObjects, option \in Options, template \in Templates :
          convert_data_model(obj, option, template)

\* A call without a path: the template is {}.
ConvertAnnotationsOnly ==
    /\ calls = 0
    /\ \E obj \in SourceObjects, option \in Options :
          convert_data_model(obj, option, EmptyDict)

Next == ConvertWithTemplate \/ ConvertAnnotationsOnly

\* The first call of a process, over every source instance and template.
Spec == Init /\ [][Next]_vars

(* ----------------------- a process making several calls ---------------- *)
\* The instances and templates of the calls followed through several calls.
RunObjects == {MkExperiment(1, [i \in 1..n |-> 1], 1) : n \in 0..MaxRuns}
RunTemplates == {TemplateOf(<<0, 0, 0, 0>>), TemplateOf(<<1, 0, 2, 1>>)}

CallWithTemplate ==
    /\ calls < MaxCalls
    /\ \E obj \in RunObjects, option \in Options, template \in RunTemplates :
          convert_data_model(obj, option, template)

CallAnnotationsOnly ==
    /\ calls < MaxCalls
    /\ \E obj \in RunObjects, option \in Options :
          convert_data_model(obj, option, EmptyDict)

NextRuns == CallWithTemplate \/ CallAnnotationsOnly

\* Up to MaxCalls calls made one after the other in one process.
SpecRuns == Init /\ [][NextRuns]_vars

(* ------------------------------ properties ---------------------------- *)
Enters == {i \in 1..Len(last.log) : last.log[i].ev = "enter"}
Selects == {i \in 1..Len(last.log) : last.log[i].ev = "select"}
Visits == {i \in 1..Len(last.log) : last.log[i].ev = "visit"}
\* the visits that made a write
Writes == {i \in Visits : last.log[i].via \in {"template", "annotation"}}
\* the last call returned
Completed == calls > 0 /\ last.err.type = "none"

PrimFields(cls) == {f \in {SrcFields(cls)[i] : i \in 1..Len(SrcFields(cls))} : f.kind = "prim"}
ListFields(cls) == {f \in {SrcFields(cls)[i] : i \in 1..Len(SrcFields(cls))} : f.kind = "list"}

\* The object at a place of the source instance.
RECURSIVE ObjAt(_, _)
ObjAt(obj, loc) ==
    IF loc = << >> THEN obj
    ELSE LET w == obj.vals[Head(loc).a]
         IN  ObjAt(IF w.kind = "obj" THEN w.obj ELSE w.list[Head(loc).i + 1], Tail(loc))

\* The rules whose pattern matches the text of the object's match attribute.
MatchingRules(obj, rules) ==
    {j \in 1..Len(rules) :
        re_match(rules[j].pattern, TextOf(obj.vals[rules[j].attribute]))}

\* The attribute has a template override among the targets the object was
\* entered with, or an annotation for the option of the call.
Mapped(e, f) == Has(e.passed, f.name) \/ Has(f.ann, last.option)

\* C1: a primitive attribute with both a template override (in the targets
\* selected for its object) and an annotation for the option is written to the
\* override's node at the numeric key obj_index, and never to the annotation's.
C1_Precedence ==
    Completed =>
      \A i \in Enters :
        LET e == last.log[i]
        IN  \A f \in PrimFields(e.attr) :
              (Has(e.passed, f.name) /\ Has(f.ann, last.option)) =>
                /\ \E j \in Visits :
                     LET v == last.log[j]
                     IN  /\ v.loc = e.loc /\ v.attr = f.name
                         /\ v.via = "template"
                         /\ v.path = Get(e.passed, f.name)
                         /\ v.key = NumKey(e.idx)
                /\ ~\E j \in Visits :
                     LET v == last.log[j]
                     IN  v.loc = e.loc /\ v.attr = f.name /\ v.via = "annotation"

\* C2: for a sequence field of n nested instances whose leaf every element
\* writes through its template targets into a node that only this field feeds,
\* the node ends with exactly n entries, keyed 0..n-1, entry i holding the
\* leaf of the i-th element.
C2_Multiplicity ==
    Completed =>
      \A i \in Enters :
        LET e == last.log[i]
        IN  \A f \in ListFields(e.attr) :
              LET elems == ObjAt(last.obj, e.loc).vals[f.name].list
                  n == Len(elems)
                  childPath == Append(e.attrPath, f.name)
                  at(k) == Append(e.loc, Elem(f.name, k))
              IN  \A j \in Writes :
                    LET v == last.log[j]
                        fedHere(w) == /\ RootOf(w.path) = RootOf(v.path)
                                      /\ w.node = v.node
                    IN  ( /\ v.loc = at(0) /\ v.via = "template"
                          /\ \A k \in 0..(n - 1) : \E j2 \in Writes :
                                LET w == last.log[j2]
                                IN  /\ w.loc = at(k) /\ w.attr = v.attr
                                    /\ w.via = "template" /\ fedHere(w)
                          /\ \A j2 \in Writes :
                                fedHere(last.log[j2]) =>
                                   /\ last.log[j2].attrPath = childPath
                                   /\ last.log[j2].attr = v.attr )
                        => LET d == Get(last.roots, RootOf(v.path))[v.node]
                           IN  /\ Keys(d) = {NumKey(k) : k \in 0..(n - 1)}
                               /\ \A k \in 0..(n - 1) :
                                    Get(d, NumKey(k)) = elems[k + 1].vals[v.attr].prim

\* C3: a primitive attribute with neither override nor annotation does not
\* keep a mapped primitive attribute of the same object from being written.
C3_UnmappedSkipped ==
    Completed =>
      \A i \in Enters :
        LET e == last.log[i]
        IN  \A u \in PrimFields(e.attr), a \in PrimFields(e.attr) :
              (~Mapped(e, u) /\ Mapped(e, a)) =>
                 \E j \in Writes :
                    last.log[j].loc = e.loc /\ last.log[j].attr = a.name

\* C4: for a rule list, two or more matching rules abort the conversion with an
\* error naming the path and the number of matches; one matching rule makes
\* its targets the active targets of the walk of the candidate; none makes the
\* active targets empty.
C4_Ambiguity ==
    \A i \in Selects :
      LET s == last.log[i]
      IN  (Has(last.template, s.attrPath) /\ Get(last.template, s.attrPath).kind = "list") =>
            LET rules == Get(last.template, s.attrPath).rules
                M == MatchingRules(ObjAt(last.obj, s.loc), rules)
                entered(t) == /\ i < Len(last.log)
                              /\ last.log[i + 1].ev = "enter"
                              /\ last.log[i + 1].loc = s.loc
                              /\ last.log[i + 1].passed = t
            IN  /\ Cardinality(M) >= 2 =>
                     /\ last.err = Err("ValueError", s.attrPath, Cardinality(M))
                     /\ i = Len(last.log)
                     /\ last.result = {}
                /\ Cardinality(M) = 1 =>
                     /\ s.via = "none"
                     /\ entered(rules[CHOOSE j \in M : TRUE].targets)
                /\ Cardinality(M) = 0 =>
                     /\ s.via = "none"
                     /\ entered(EmptyDict)

\* A walk that meets a rule list with one match, one with no match, and then
\* one with exactly two matches.
C4_Witness ==
    /\ last.err.type = "ValueError" /\ last.err.count = 2
    /\ \E i \in Selects : last.log[i].n = 1
    /\ \E i \in Selects :
          /\ last.log[i].n = 0
          /\ Has(last.template, last.log[i].attrPath)
          /\ Get(last.template, last.log[i].attrPath).kind = "list"

\* The target paths a template holds: those of its flat maps (the metadata
\* keys aside) and those of the targets of its rules.
TemplatePathStrings(template) ==
    UNION {Values(e.v.items) \cup Values(e.v.targets)
             \cup UNION {Values(e.v.rules[j].targets) : j \in 1..Len(e.v.rules)} :
           e \in {d \in template : d.k \notin {<<"__model__">>, <<"__sources__">>}}}

\* C5: the root of every target path of the template, in a flat map or in the
\* targets of a rule, is a key of the roots the walk is given.
C5_TemplateRoots ==
    calls > 0 =>
      \A t \in TemplatePathStrings(last.template) : Has(last.roots, RootOf(t))

\* C6: a flat map under the path of a nested object is used as the active
\* targets of the walk of that object, without error.
C6_FlatMap ==
    \A i \in Selects :
      LET s == last.log[i]
      IN  ( /\ Has(last.template, s.attrPath)
            /\ Get(last.template, s.attrPath).kind = "dict"
            /\ ~Get(last.template, s.attrPath).hasTargets
            /\ Get(last.template, s.attrPath).items # EmptyDict )
          => /\ s.via = "none"
             /\ s.used = Get(last.template, s.attrPath).items
             /\ i < Len(last.log)
             /\ last.log[i + 1].ev = "enter"
             /\ last.log[i + 1].passed = Get(last.template, s.attrPath).items

\* The AttributeNodes of the root tree the node path of a target path names.
AttributeHits(t) ==
    {i \in 1..Len(Nodes(RootOf(t))) :
        /\ Nodes(RootOf(t))[i].kind = "attr"
        /\ LowerChains[RootOf(t)][i] = NodePathOf(t)}

\* C7: a value is stored only if exactly one AttributeNode matches the node
\* path; with no or several matching nodes the conversion aborts at that write.
C7_UniqueOrFatal ==
    \A j \in Writes :
      LET v == last.log[j]
      IN  Cardinality(AttributeHits(v.path)) # 1 =>
            /\ last.err.type # "none"
            /\ last.err.path = NodePathOf(v.path)
            /\ j = Len(last.log)

\* C8: two elements reached through the same sequence fields never write the
\* same attribute under the same key of the same node.
C8_DistinctIndex ==
    \A j1 \in Writes, j2 \in Writes :
      LET v == last.log[j1]
          w == last.log[j2]
      IN  ( /\ v.attrPath = w.attrPath /\ v.attr = w.attr /\ v.loc # w.loc
            /\ RootOf(v.path) = RootOf(w.path) /\ v.node = w.node /\ v.node # 0 )
          => v.key # w.key

\* C9: a call returns one instance per root discovered in that call, holding
\* only values written during that call.
C9_SelfContained ==
    Completed =>
      /\ {b.root : b \in last.result} = last.found
      /\ \A b \in last.result : \A n \in DOMAIN b.slots : \A en \in b.slots[n] :
            \E j \in Writes :
               LET v == last.log[j]
               IN  /\ RootOf(v.path) = b.root /\ v.node = n
                   /\ v.key = en.k /\ v.value = en.v

\* C10: every primitive attribute of an object is resolved against the active
\* targets the walk of that object was given.
C10_ScopedTargets ==
    \A j \in Visits : last.log[j].used = last.log[j].passed

====
